---- MODULE Spec2Model ----
(***************************************************************************)
(* A model of mutils/cache.py (studiolibrary): the frame-range helpers     *)
(* clampRange, moveTime and findFirstLastKeyframes, the Cache transfer     *)
(* object (save, fromPath, open, close) and importAbc.                     *)
(*                                                                         *)
(* Python values are encoded as follows.  None is the empty tuple <<>>,    *)
(* an optional integer v is <<v>>, a frame range is a pair <<s, e>>, a     *)
(* string is the tuple of its code points.  A call that raises returns a   *)
(* record whose field "error" names the exception class; "" is a normal    *)
(* return.                                                                 *)
(***************************************************************************)
EXTENDS Integers, Sequences, FiniteSets, TLC

VARIABLES fn, args, ret,                       \* a call of a frame-range helper
          cache, disk, savePc, saveArgs, saveLocals, saveLog, raised,
                                                \* a Cache object and the bundles on disk
          scene, imports, sceneCall,           \* the Maya scene, the imports so far,
                                                \* the last open() or close()
          impArgs, impRet,                     \* a call of importAbc
          itemArgs, itemRet,                   \* CacheItem.saveValidator and the
                                                \* frame-range check of Cache.save
          expPc, expArgs, expLog, files,       \* a call of exportAbc, and the icon
                                                \* and sequence files it handles
          mayaFile, cleanLog, linesep          \* an exported Maya file, what it held
                                                \* before each cleanMayaFile, os.linesep

timeVars == <<fn, args, ret>>

saveVars == <<cache, disk, savePc, saveArgs, saveLocals, saveLog, raised>>

sceneVars == <<scene, imports, sceneCall>>

vars == <<fn, args, ret,
          cache, disk, savePc, saveArgs, saveLocals, saveLog, raised,
          scene, imports, sceneCall,
          impArgs, impRet,
          itemArgs, itemRet,
          expPc, expArgs, expLog, files,
          mayaFile, cleanLog, linesep>>

impVars == <<impArgs, impRet>>

itemVars == <<itemArgs, itemRet>>

expVars == <<expPc, expArgs, expLog, files>>

cleanVars == <<mayaFile, cleanLog, linesep>>

\* Frames of the model are 0..MaxFrame.
MaxFrame == 3

Frames == 0..MaxFrame

None == <<>>

Some(v) == <<v>>

OptFrames == {None} \cup {Some(f) : f \in Frames}

Ranges == Frames \X Frames

Raise(cls) == [error |-> cls, value |-> None]

Return(v) == [error |-> "", value |-> v]

\* ---------------------------------------------------------------- helpers

\* clampRange with the overlap test off by one frame (touching ranges fail).
clampRangeStrict(srcTime, dstTime) ==
    LET srcStart == srcTime[1]
        srcEnd == srcTime[2]
        dstStart == dstTime[1]
        dstEnd == dstTime[2]
    IN  IF srcStart >= dstEnd \/ srcEnd <= dstStart
        THEN Raise("OutOfBoundsError")
        ELSE Return(<<IF srcStart < dstStart THEN dstStart ELSE srcStart,
                      IF srcEnd > dstEnd THEN dstEnd ELSE srcEnd>>)

\* clampRange that forgets to clip the end of the source range.
clampRangeNoEndClip(srcTime, dstTime) ==
    LET srcStart == srcTime[1]
        srcEnd == srcTime[2]
        dstStart == dstTime[1]
        dstEnd == dstTime[2]
    IN  IF srcStart > dstEnd \/ srcEnd < dstStart
        THEN Raise("OutOfBoundsError")
        ELSE Return(<<IF srcStart < dstStart THEN dstStart ELSE srcStart,
                      srcEnd>>)

\* cache.py clampRange: clip srcTime to within dstTime.
clampRange(srcTime, dstTime) ==
    LET srcStart == srcTime[1]
        srcEnd == srcTime[2]
        dstStart == dstTime[1]
        dstEnd == dstTime[2]
    IN  IF srcStart > dstEnd \/ srcEnd < dstStart
        THEN Raise("OutOfBoundsError")
        ELSE Return(<<IF srcStart < dstStart THEN dstStart ELSE srcStart,
                      IF srcEnd > dstEnd THEN dstEnd ELSE srcEnd>>)

\* moveTime that ignores the requested start.
moveTimeKeepStart(time, start) ==
    LET srcStartTime == time[1]
        srcEndTime == time[2]
        duration == srcEndTime - srcStartTime
        startTime == srcStartTime
        endTime == startTime + duration
    IN  IF startTime = endTime THEN <<startTime, startTime + 1>>
                               ELSE <<startTime, endTime>>

\* moveTime without the zero-duration adjustment.
moveTimeNoAdjust(time, start) ==
    LET srcStartTime == time[1]
        srcEndTime == time[2]
        duration == srcEndTime - srcStartTime
        startTime == IF start = None THEN srcStartTime ELSE start[1]
        endTime == startTime + duration
    IN  <<startTime, endTime>>

\* cache.py moveTime: move the range to the given start (None keeps it).
moveTime(time, start) ==
    LET srcStartTime == time[1]
        srcEndTime == time[2]
        duration == srcEndTime - srcStartTime
        startTime == IF start = None THEN srcStartTime ELSE start[1]
        endTime == startTime + duration
    IN  IF startTime = endTime THEN <<startTime, startTime + 1>>
                               ELSE <<startTime, endTime>>

SetMin(S) == CHOOSE x \in S : \A y \in S : x <= y

SetMax(S) == CHOOSE x \in S : \A y \in S : x >= y

\* maya.cmds.findKeyframe(curves, which=...): curves is the set of the times
\* that carry a key on any of the curves.
findKeyframe(curves, which) ==
    IF which = "first" THEN SetMin(curves) ELSE SetMax(curves)

\* findFirstLastKeyframes that lets the clamp failure escape.
findFirstLastKeyframesRaising(curves, time) ==
    LET first == findKeyframe(curves, "first")
        last == findKeyframe(curves, "last")
        result == <<first, last>>
    IN  IF time # None THEN clampRange(time, result) ELSE Return(result)

\* cache.py findFirstLastKeyframes: "if time:" is true of every pair.
findFirstLastKeyframes(curves, time) ==
    LET first == findKeyframe(curves, "first")
        last == findKeyframe(curves, "last")
        result == <<first, last>>
    IN  IF time # None
        THEN LET clamped == clampRange(time, result)
             IN  IF clamped.error = "OutOfBoundsError"
                 THEN Return(result)      \* logger.warning(error)
                 ELSE Return(clamped.value)
        ELSE Return(result)

\* ------------------------------------------------- the helpers, called

NoCall == [srcTime |-> None, dstTime |-> None, time |-> None,
           start |-> None, curves |-> {}]

KeySets == (SUBSET Frames) \ {{}}

TimeIdle ==
    /\ fn = "" /\ args = NoCall /\ ret = Return(None)

TimeInit ==
    /\ fn \in {"clampRange", "moveTime", "findFirstLastKeyframes"}
    /\ ret = Raise("pending")
    /\ \/ /\ fn = "clampRange"
          /\ \E s \in Ranges, d \in Ranges :
                args = [NoCall EXCEPT !.srcTime = s, !.dstTime = d]
       \/ /\ fn = "moveTime"
          /\ \E t \in Ranges, st \in OptFrames :
                args = [NoCall EXCEPT !.time = t, !.start = st]
       \/ /\ fn = "findFirstLastKeyframes"
          /\ \E c \in KeySets, t \in {None} \cup Ranges :
                args = [NoCall EXCEPT !.curves = c, !.time = t]

Pending == ret.error = "pending"

CallClampRange ==
    /\ fn = "clampRange" /\ Pending
    /\ ret' = clampRange(args.srcTime, args.dstTime)
    /\ UNCHANGED <<fn, args>>
    /\ UNCHANGED <<saveVars, sceneVars, impVars, itemVars, expVars, cleanVars>>

CallMoveTime ==
    /\ fn = "moveTime" /\ Pending
    /\ ret' = Return(moveTime(args.time, args.start))
    /\ UNCHANGED <<fn, args>>
    /\ UNCHANGED <<saveVars, sceneVars, impVars, itemVars, expVars, cleanVars>>

CallFindFirstLastKeyframes ==
    /\ fn = "findFirstLastKeyframes" /\ Pending
    /\ ret' = findFirstLastKeyframes(args.curves, args.time)
    /\ UNCHANGED <<fn, args>>
    /\ UNCHANGED <<saveVars, sceneVars, impVars, itemVars, expVars, cleanVars>>

TimeNext == CallClampRange \/ CallMoveTime \/ CallFindFirstLastKeyframes

\* ------------------------------------------------------------ Cache.save

\* Frames offered to Cache.save are 0..MaxSaveFrame.
MaxSaveFrame == 2

SaveFrames == 0..MaxSaveFrame

OptSaveFrames == {None} \cup {Some(f) : f \in SaveFrames}

\* A bundle directory: "a" and "b" as code points.
BundlePaths == {<<97>>, <<98>>}

\* time=None, or a pair whose members may each be None.
SaveTimes == {None} \cup (OptSaveFrames \X OptSaveFrames)

NoMetadata == [startFrame |-> None, endFrame |-> None]

\* Cache.__init__: a transfer object with no frame range and no path.
NewCache == [metadata |-> NoMetadata, path |-> None]

\* A bundle directory: the metadata in pose.json (None without the file) and
\* whether cache.abc exists.
NoBundle == [pose |-> None, abc |-> FALSE]

\* Cache.startFrame / Cache.endFrame: metadata().get(...).
startFrame(c) == c.metadata.startFrame

endFrame(c) == c.metadata.endFrame

\* mutils.Pose.setMetadata(key, value)
setMetadata(c, key, value) ==
    [c EXCEPT !.metadata = [c.metadata EXCEPT ![key] = value]]

\* mutils.Pose.setPath(path)
setPath(c, path) == [c EXCEPT !.path = Some(path)]

\* mutils.Pose.save(posePath): pose.json of the bundle holds the metadata.
PoseSave(d, path, c) == [d EXCEPT ![path].pose = Some(c.metadata)]

\* mutils.Pose.read(poseJsonPath): the metadata of pose.json, IOError without it.
PoseRead(d, path) ==
    IF d[path].pose = None THEN Raise("IOError") ELSE Return(d[path].pose[1])

\* Cache.fromPath(path): cls(), setPath(path), read().
fromPath(d, path) ==
    LET c == setPath(NewCache, path)
        r == PoseRead(d, path)
    IN  IF r.error # "" THEN r
        ELSE Return([c EXCEPT !.metadata = r.value])

\* The frame-range test of Cache.save accepting start = end.
frameRangeErrorLax(start, end) ==
    IF start = None \/ end = None THEN "AnimationTransferError"
    ELSE IF start[1] > end[1] THEN "AnimationTransferError"
    ELSE ""

\* Cache.save, "Check frame range": the error raised for (start, end), "" for none.
frameRangeError(start, end) ==
    IF start = None \/ end = None THEN "AnimationTransferError"
    ELSE IF start[1] >= end[1] THEN "AnimationTransferError"
    ELSE ""

\* The metadata step of Cache.save storing the end used for the export.
saveMetadataExportEnd(c, start, end) ==
    setMetadata(setMetadata(c, "endFrame", Some(end + 1)), "startFrame", Some(start))

\* Cache.save: setMetadata("endFrame", end); setMetadata("startFrame", start).
saveMetadata(c, start, end) ==
    setMetadata(setMetadata(c, "endFrame", Some(end)), "startFrame", Some(start))

NoLocals == [start |-> None, end |-> None]

\* A step of a call, as recorded in its log.
Ev(op) == [op |-> op, frameRange |-> None]

NoArgs == [path |-> None, time |-> None, exportUSD |-> FALSE]

SaveIdle ==
    /\ cache = NewCache
    /\ disk = [p \in BundlePaths |-> NoBundle]
    /\ savePc = "idle"
    /\ saveArgs = NoArgs
    /\ saveLocals = NoLocals
    /\ saveLog = <<>>
    /\ raised = ""

SaveInit == SaveIdle

Returned == savePc = "idle"

\* cache = Cache()
CacheNew ==
    /\ Returned /\ cache # NewCache
    /\ cache' = NewCache
    /\ UNCHANGED <<disk, savePc, saveArgs, saveLocals, saveLog, raised>>
    /\ UNCHANGED <<timeVars, sceneVars, impVars, itemVars, expVars, cleanVars>>

\* cache = Cache.fromPath(path); an unreadable bundle raises and binds nothing.
CacheFromPath ==
    /\ Returned
    /\ \E p \in BundlePaths :
         LET r == fromPath(disk, p)
         IN  /\ cache' = IF r.error = "" THEN r.value ELSE cache
             /\ raised' = r.error
             /\ savePc' = IF r.error = "" THEN "idle" ELSE "raised"
             /\ saveLog' = <<[Ev("fromPath") EXCEPT !.frameRange = p]>>
    /\ UNCHANGED <<disk, saveArgs, saveLocals>>
    /\ UNCHANGED <<timeVars, sceneVars, impVars, itemVars, expVars, cleanVars>>

\* cache.save(path, time, exportUSD=...) is entered.
SaveCall ==
    /\ Returned
    /\ \E p \in BundlePaths, t \in SaveTimes, u \in BOOLEAN :
         saveArgs' = [path |-> Some(p), time |-> t, exportUSD |-> u]
    /\ savePc' = "check"
    /\ saveLog' = <<>>
    /\ UNCHANGED <<cache, disk, saveLocals, raised>>
    /\ UNCHANGED <<timeVars, sceneVars, impVars, itemVars, expVars, cleanVars>>

\* "if not time: time = selectedObjectsFrameRange(objects)", then the check
\* of the frame range.
SaveCheck ==
    /\ savePc = "check"
    /\ \E t \in OptSaveFrames \X OptSaveFrames :
         /\ saveArgs.time # None => t = saveArgs.time
         /\ saveLocals' = [start |-> t[1], end |-> t[2]]
         /\ LET err == frameRangeError(t[1], t[2])
            IN  /\ raised' = err
                /\ savePc' = IF err = "" THEN "setMetadata" ELSE "raised"
    /\ UNCHANGED <<cache, disk, saveArgs, saveLog>>
    /\ UNCHANGED <<timeVars, sceneVars, impVars, itemVars, expVars, cleanVars>>

\* setMetadata("endFrame", end); setMetadata("startFrame", start); end += 1
SaveSetMetadata ==
    /\ savePc = "setMetadata"
    /\ cache' = saveMetadata(cache, saveLocals.start[1], saveLocals.end[1])
    /\ saveLocals' = [saveLocals EXCEPT !.end = Some(saveLocals.end[1] + 1)]
    /\ saveLog' = Append(saveLog, Ev("setMetadata"))
    /\ savePc' = "pose"
    /\ UNCHANGED <<disk, saveArgs, raised>>
    /\ UNCHANGED <<timeVars, sceneVars, impVars, itemVars, expVars, cleanVars>>

\* mutils.Pose.save(self, posePath): writes pose.json, or fails on the file.
SavePose ==
    /\ savePc = "pose"
    /\ \/ /\ disk' = PoseSave(disk, saveArgs.path[1], cache)
          /\ saveLog' = Append(saveLog, Ev("pose.json"))
          /\ savePc' = "export"
          /\ UNCHANGED raised
       \/ /\ raised' = "IOError"
          /\ savePc' = "raised"
          /\ UNCHANGED <<disk, saveLog>>
    /\ UNCHANGED <<cache, saveArgs, saveLocals>>
    /\ UNCHANGED <<timeVars, sceneVars, impVars, itemVars, expVars, cleanVars>>

\* maya.cmds.AbcExport(j=command): writes cache.abc, or the host command fails.
SaveExport ==
    /\ savePc = "export"
    /\ \/ /\ disk' = [disk EXCEPT ![saveArgs.path[1]].abc = TRUE]
          /\ saveLog' = Append(saveLog, [Ev("AbcExport") EXCEPT !.frameRange =
                              <<saveLocals.start[1], saveLocals.end[1]>>])
          /\ savePc' = "usd"
          /\ UNCHANGED raised
       \/ /\ raised' = "RuntimeError"
          /\ savePc' = "raised"
          /\ UNCHANGED <<disk, saveLog>>
    /\ UNCHANGED <<cache, saveArgs, saveLocals>>
    /\ UNCHANGED <<timeVars, sceneVars, impVars, itemVars, expVars, cleanVars>>

\* "if exportUSD:" inside "try: ... except: raise": a failed import of pymel
\* or mgear (ImportError) and a failure of the host commands (pmc.selected,
\* dag.getTopParent, hasAttr, mayaUSDExport: RuntimeError) leave save;
\* otherwise the crowd nodes are exported or a warning is logged.
SaveUSD ==
    /\ savePc = "usd"
    /\ \/ /\ ~saveArgs.exportUSD
          /\ savePc' = "setPath"
          /\ UNCHANGED <<raised, saveLog>>
       \/ /\ saveArgs.exportUSD
          /\ raised' \in {"ImportError", "RuntimeError"}
          /\ savePc' = "raised"
          /\ UNCHANGED saveLog
       \/ /\ saveArgs.exportUSD
          /\ \E done \in {"mayaUSDExport", "USD not exported."} :
                saveLog' = Append(saveLog, Ev(done))
          /\ savePc' = "setPath"
          /\ UNCHANGED raised
    /\ UNCHANGED <<cache, disk, saveArgs, saveLocals>>
    /\ UNCHANGED <<timeVars, sceneVars, impVars, itemVars, expVars, cleanVars>>

\* self.setPath(path)
SaveSetPath ==
    /\ savePc = "setPath"
    /\ cache' = setPath(cache, saveArgs.path[1])
    /\ saveLog' = Append(saveLog, Ev("setPath"))
    /\ savePc' = "done"
    /\ UNCHANGED <<disk, saveArgs, saveLocals, raised>>
    /\ UNCHANGED <<timeVars, sceneVars, impVars, itemVars, expVars, cleanVars>>

\* The call is over: save has returned, or its exception has reached the caller.
SaveReturn ==
    /\ savePc \in {"done", "raised"}
    /\ savePc' = "idle"
    /\ saveArgs' = NoArgs
    /\ saveLocals' = NoLocals
    /\ saveLog' = <<>>
    /\ raised' = ""
    /\ UNCHANGED <<cache, disk>>
    /\ UNCHANGED <<timeVars, sceneVars, impVars, itemVars, expVars, cleanVars>>

SaveNext ==
    \/ CacheNew \/ CacheFromPath \/ SaveCall \/ SaveCheck \/ SaveSetMetadata
    \/ SavePose \/ SaveExport \/ SaveUSD \/ SaveSetPath \/ SaveReturn

\* ---------------------------------------------------- Cache.open / close

\* At most MaxImports file imports are followed.
MaxImports == 2

\* A scene file holds 0..MaxNodes nodes.
MaxNodes == 1

\* A bundle path has 1..MaxPathLen characters.
MaxPathLen == 2

\* "a", "/", DEL, and two code points outside ASCII.
PathChars == {97, 47, 127, 128, 233}

RECURSIVE StringsUpTo(_)
StringsUpTo(n) ==
    IF n = 0 THEN {<<>>}
    ELSE LET shorter == StringsUpTo(n - 1)
         IN  shorter \cup {Append(s, c) : s \in {x \in shorter : Len(x) = n - 1},
                                          c \in PathChars}

ScenePaths == StringsUpTo(MaxPathLen) \ {<<>>}

IMPORT_NAMESPACE == "REMOVE_IMPORT"

\* "animation.mb" and "animation.ma"
AnimationMb == <<97, 110, 105, 109, 97, 116, 105, 111, 110, 46, 109, 98>>

AnimationMa == <<97, 110, 105, 109, 97, 116, 105, 111, 110, 46, 109, 97>>

\* os.path.join(a, b) for a relative b: a "/" between them unless a ends in one.
PathJoin(a, b) ==
    IF a = <<>> THEN b
    ELSE IF a[Len(a)] = 47 THEN a \o b
    ELSE a \o <<47>> \o b

\* Cache.mayaPath: animation.mb if it exists, animation.ma otherwise.
mayaPath(path, mbExists) ==
    IF mbExists THEN PathJoin(path, AnimationMb) ELSE PathJoin(path, AnimationMa)

\* isAscii accepting code point 128.
isAsciiOffByOne(s) == \A i \in 1..Len(s) : s[i] <= 128

\* Cache.isAscii: all(ord(c) < 128 for c in s)
isAscii(s) == \A i \in 1..Len(s) : s[i] < 128

\* The scene: the nodes in REMOVE_IMPORT, the nodes an import had to put in a
\* renamed namespace, the namespaces under the root, the current namespace.
EmptyScene == [nodes |-> {}, renamed |-> {}, namespaces |-> {}, current |-> ":"]

\* maya.cmds.ls(IMPORT_NAMESPACE + ":*", r=True)
ls(sc) == sc.nodes

\* maya.cmds.delete(nodes)
delete(sc, nodes) == [sc EXCEPT !.nodes = @ \ nodes]

\* maya.cmds.namespaceInfo(ls=True)
namespaceInfo(sc) == sc.namespaces

\* maya.cmds.namespace(set=':'); maya.cmds.namespace(rm=...): an empty
\* namespace is removed (a namespace with nodes in it is not).
namespaceRm(sc, ns) ==
    IF sc.nodes = {}
    THEN [sc EXCEPT !.current = ":", !.namespaces = @ \ {ns}]
    ELSE [sc EXCEPT !.current = ":"]

\* Cache.close: delete the imported nodes, then remove the namespace.
close(sc) ==
    LET nodes == ls(sc)
        sc1 == IF nodes # {} THEN delete(sc, nodes) ELSE sc
    IN  IF IMPORT_NAMESPACE \in namespaceInfo(sc1)
        THEN namespaceRm(sc1, IMPORT_NAMESPACE)
        ELSE sc1

\* The nodes of the gen-th import of a file of n nodes.
NewNodes(gen, n) == {<<gen, k>> : k \in 1..n}

\* maya.cmds.file(path, i=True, namespace=IMPORT_NAMESPACE, returnNewNodes=True):
\* the nodes land in the namespace, or in a renamed one if it is taken.
fileImport(sc, gen, n) ==
    IF IMPORT_NAMESPACE \in sc.namespaces
    THEN [sc EXCEPT !.renamed = @ \cup NewNodes(gen, n),
                    !.namespaces = @ \cup {"REMOVE_IMPORT1"}]
    ELSE [sc EXCEPT !.nodes = NewNodes(gen, n),
                    !.namespaces = @ \cup {IMPORT_NAMESPACE}]

\* Cache.open without the close() that cleans up first.
openNoClose(sc, path, gen, n) ==
    IF ~isAscii(path)
    THEN [scene |-> sc, ret |-> Raise("IOError")]
    ELSE [scene |-> fileImport(sc, gen, n), ret |-> Return(NewNodes(gen, n))]

\* Cache.open for the scene file at path, whose n nodes become import gen.
open(sc, path, gen, n) ==
    LET cleaned == close(sc)
    IN  IF ~isAscii(path)
        THEN [scene |-> cleaned, ret |-> Raise("IOError")]
        ELSE [scene |-> fileImport(cleaned, gen, n),
              ret |-> Return(NewNodes(gen, n))]

NoSceneCall == [op |-> "", path |-> <<>>, mayaPath |-> <<>>, found |-> {},
                importsBefore |-> 0, ret |-> Return(None)]

SceneIdle ==
    /\ scene = EmptyScene
    /\ imports = 0
    /\ sceneCall = NoSceneCall

SceneInit == SceneIdle

\* cache.open() on the Cache of some bundle
SceneOpen ==
    /\ imports < MaxImports
    /\ \E path \in ScenePaths, mbExists \in BOOLEAN, n \in 0..MaxNodes :
         LET file == mayaPath(path, mbExists)
             r == open(scene, file, imports + 1, n)
         IN  /\ scene' = r.scene
             /\ imports' = IF r.ret.error = "" THEN imports + 1 ELSE imports
             /\ sceneCall' = [op |-> "open", path |-> path, mayaPath |-> file,
                              found |-> scene.nodes, importsBefore |-> imports,
                              ret |-> r.ret]
    /\ UNCHANGED <<timeVars, saveVars, impVars, itemVars, expVars, cleanVars>>

\* cache.close()
SceneClose ==
    /\ scene' = close(scene)
    /\ sceneCall' = [NoSceneCall EXCEPT !.op = "close", !.found = scene.nodes,
                                        !.importsBefore = imports]
    /\ UNCHANGED imports
    /\ UNCHANGED <<timeVars, saveVars, impVars, itemVars, expVars, cleanVars>>

SceneNext == SceneOpen \/ SceneClose

\* -------------------------------------------------------------- importAbc

\* importAbc is given at most MaxPaths paths.
MaxPaths == 2

\* The spacing asked for is -1..MaxSpacing.
MaxSpacing == 2

Spacings == (0 - 1)..MaxSpacing

RECURSIVE PathLists(_)
PathLists(n) ==
    IF n = 0 THEN {<<>>}
    ELSE LET shorter == PathLists(n - 1)
         IN  shorter \cup {Append(s, p) : s \in {x \in shorter : Len(x) = n - 1},
                                          p \in BundlePaths}

\* option=None or a paste option by its string.
ImportOptions == {None, Some("replace"), Some("import"), Some("replace all"),
                  Some("replaceCompletely")}

\* class PasteOption: the attributes it defines.
PasteOption == [Replace |-> "replace", Import |-> "import"]

\* The keyword parameters of Cache.load.
LoadParams == {"objects", "namespaces", "option"}

\* The keywords importAbc passes to cache.load.
LoadKeywords == {"option", "objects", "startFrame", "namespaces"}

\* The local names of importAbc bound on entry: its parameters.
ImportParams == {"paths", "spacing", "objects", "option", "namespaces",
                 "showDialog"}

\* The locals of importAbc at the top of its loop.
ImportLocals(spacing, option) ==
    [bound |-> ImportParams \cup {"isFirstAnim"}, isFirstAnim |-> TRUE,
     startFrame |-> None, spacing |-> spacing, option |-> option,
     loads |-> <<>>, error |-> ""]

\* One pass of "for path in paths:" from the locals L.
ImportStep(d, path, L) ==
    LET r == fromPath(d, path)
    IN  IF r.error # "" THEN [L EXCEPT !.error = r.error]
        ELSE IF "startFrame" \notin L.bound
        THEN [L EXCEPT !.error = "UnboundLocalError"]
        ELSE LET c == r.value
                 sf == IF L.startFrame = None /\ L.isFirstAnim
                       THEN startFrame(c) ELSE L.startFrame
                 opt == IF L.option = Some("replaceCompletely") /\ ~L.isFirstAnim
                        THEN Some("insert") ELSE L.option
             IN  IF ~(LoadKeywords \subseteq LoadParams)
                 THEN [L EXCEPT !.error = "TypeError", !.startFrame = sf,
                                !.option = opt]
                 ELSE LET duration == endFrame(c)[1] - startFrame(c)[1]
                      IN  [L EXCEPT
                             !.loads = Append(@, [path |-> path, startFrame |-> sf]),
                             !.startFrame = Some(sf[1] + duration + L.spacing),
                             !.option = opt,
                             !.isFirstAnim = FALSE]

RECURSIVE ImportLoop(_, _, _)
ImportLoop(d, paths, L) ==
    IF paths = <<>> \/ L.error # "" THEN L
    ELSE ImportLoop(d, Tail(paths), ImportStep(d, Head(paths), L))

\* importAbc up to "if showDialog:": isFirstAnim, the spacing raised to 1,
\* the default of option.
importEntry(spacing, option) ==
    LET spacing1 == IF spacing < 1 THEN 1 ELSE spacing
    IN  IF (option = None \/ option = Some("replace all"))
           /\ "ReplaceCompletely" \notin DOMAIN PasteOption
        THEN [ImportLocals(spacing1, option) EXCEPT !.error = "AttributeError"]
        ELSE LET option1 == IF option = None \/ option = Some("replace all")
                            THEN Some(PasteOption["ReplaceCompletely"])
                            ELSE option
             IN  ImportLocals(spacing1, option1)

\* "spacing, accepted = QInputDialog.getInt(...)" and "if not accepted: raise";
\* dialog is what getInt returns.
importDialog(L, dialog) ==
    [L EXCEPT !.spacing = dialog.spacing,
              !.error = IF dialog.accepted THEN "" ELSE "Exception"]

NoDialog == [spacing |-> 1, accepted |-> TRUE]

\* importAbc(paths, spacing, option=option, showDialog=showDialog) on a disk
\* that does not change during the call; dialog is what QInputDialog.getInt
\* returns if it is shown.
importAbc(d, paths, spacing, option, showDialog, dialog) ==
    LET L == importEntry(spacing, option)
    IN  IF L.error # "" THEN L
        ELSE IF showDialog THEN ImportLoop(d, paths, importDialog(L, dialog))
        ELSE ImportLoop(d, paths, L)

\* The bundles importAbc may find: none, or a saved frame range.
SavedBundles ==
    {NoBundle} \cup
    {[pose |-> Some([startFrame |-> Some(r[1]), endFrame |-> Some(r[2])]),
      abc |-> TRUE] : r \in {x \in SaveFrames \X SaveFrames : x[1] < x[2]}}

ImportIdle ==
    /\ impArgs = [paths |-> <<>>, spacing |-> 1, option |-> None,
                  showDialog |-> FALSE]
    /\ impRet = ImportLocals(1, None)

ImportPending == [ImportLocals(1, None) EXCEPT !.error = "pending"]

ImportInit ==
    /\ impArgs \in [paths : PathLists(MaxPaths), spacing : Spacings,
                    option : ImportOptions, showDialog : BOOLEAN]
    /\ impRet = ImportPending
    /\ disk \in [BundlePaths -> SavedBundles]
    /\ cache = NewCache
    /\ savePc = "idle"
    /\ saveArgs = NoArgs
    /\ saveLocals = NoLocals
    /\ saveLog = <<>>
    /\ raised = ""

\* importAbc is called.  Without the dialog, and when the default of option
\* raises, the call runs to its end; otherwise it stops in the modal dialog
\* (error = "dialog"), whose event loop runs until the user answers.
CallImportAbc ==
    /\ impRet = ImportPending
    /\ LET L == importEntry(impArgs.spacing, impArgs.option)
       IN  impRet' = IF impArgs.showDialog /\ L.error = ""
                     THEN [L EXCEPT !.error = "dialog"]
                     ELSE importAbc(disk, impArgs.paths, impArgs.spacing,
                                    impArgs.option, impArgs.showDialog, NoDialog)
    /\ UNCHANGED impArgs
    /\ UNCHANGED <<timeVars, saveVars, sceneVars, itemVars, expVars, cleanVars>>

\* While the dialog is open a bundle is saved or removed (a callback of the
\* event loop, or another process).
ImportDialogDiskChange ==
    /\ impRet.error = "dialog"
    /\ \E p \in BundlePaths, b \in SavedBundles :
          /\ b # disk[p]
          /\ disk' = [disk EXCEPT ![p] = b]
    /\ UNCHANGED <<cache, savePc, saveArgs, saveLocals, saveLog, raised>>
    /\ UNCHANGED <<impArgs, impRet>>
    /\ UNCHANGED <<timeVars, sceneVars, itemVars, expVars, cleanVars>>

\* The dialog is answered: canceled raises, accepted runs the loop over the
\* paths with the spacing chosen, on the disk as it is now.
ImportDialogAnswer ==
    /\ impRet.error = "dialog"
    /\ \E dialog \in [spacing : Spacings, accepted : BOOLEAN] :
          impRet' = ImportLoop(disk, impArgs.paths,
                               importDialog([impRet EXCEPT !.error = ""], dialog))
    /\ UNCHANGED impArgs
    /\ UNCHANGED <<timeVars, saveVars, sceneVars, itemVars, expVars, cleanVars>>

ImportNext == CallImportAbc \/ ImportDialogDiskChange \/ ImportDialogAnswer

\* ------------------------------------------------ CacheItem.saveValidator

\* byFrame values offered to the validator are -1..MaxByFrame.
MaxByFrame == 2

\* kwargs["byFrame"]: not passed, the empty string of a cleared field, or an int.
ByFrames ==
    {[kind |-> "absent", v |-> 0], [kind |-> "empty", v |-> 0]}
    \cup {[kind |-> "int", v |-> n] : n \in (0 - 1)..MaxByFrame}

\* The fields super().saveValidator(**kwargs) may already hold.
BaseFields == {<<>>, <<[name |-> "name", error |-> "The name is missing!"]>>}

\* kwargs.get("byFrame", 1)
byFrameOrDefault(byFrame) == IF byFrame.kind = "absent" THEN 1 ELSE byFrame.v

\* kwargs.get("frameRange", (0, 1))
frameRangeOrDefault(frameRange) ==
    IF frameRange = None THEN <<0, 1>> ELSE frameRange

\* saveValidator flagging the frame range only for start > end.
saveValidatorLax(fields, byFrame, frameRange) ==
    LET byFrameError == byFrame.kind = "empty"
                        \/ (byFrame.kind # "empty" /\ byFrameOrDefault(byFrame) < 1)
        fields1 == IF byFrameError
                   THEN fields \o <<[name |-> "byFrame",
                            error |-> "The by frame value cannot be less than 1!"]>>
                   ELSE fields
        range == frameRangeOrDefault(frameRange)
    IN  IF range[1] > range[2]
        THEN fields1 \o <<[name |-> "frameRange",
                 error |-> "The start frame cannot be greater than or equal to the end frame!"]>>
        ELSE fields1

\* CacheItem.saveValidator(**kwargs), on the fields of the base class.
saveValidator(fields, byFrame, frameRange) ==
    LET byFrameError == byFrame.kind = "empty"
                        \/ (byFrame.kind # "empty" /\ byFrameOrDefault(byFrame) < 1)
        fields1 == IF byFrameError
                   THEN fields \o <<[name |-> "byFrame",
                            error |-> "The by frame value cannot be less than 1!"]>>
                   ELSE fields
        range == frameRangeOrDefault(frameRange)
    IN  IF range[1] >= range[2]
        THEN fields1 \o <<[name |-> "frameRange",
                 error |-> "The start frame cannot be greater than or equal to the end frame!"]>>
        ELSE fields1

\* Cache.save(path, time=frameRange), as CacheItem.save and exportAbc pass the
\* range on: what its frame-range check raises.
saveTimeError(frameRange) ==
    frameRangeError(Some(frameRange[1]), Some(frameRange[2]))

NoItemArgs == [fields |-> <<>>, byFrame |-> [kind |-> "absent", v |-> 0],
               frameRange |-> None]

ItemIdle ==
    /\ itemArgs = NoItemArgs
    /\ itemRet = [fields |-> None, saveError |-> None]

ItemInit ==
    /\ itemArgs \in [fields : BaseFields, byFrame : ByFrames,
                     frameRange : {None} \cup Ranges]
    /\ itemRet = [fields |-> None, saveError |-> None]

\* The dialog validates its fields.
CallSaveValidator ==
    /\ itemRet.fields = None
    /\ itemRet' = [itemRet EXCEPT !.fields =
                      Some(saveValidator(itemArgs.fields, itemArgs.byFrame,
                                         itemArgs.frameRange))]
    /\ UNCHANGED itemArgs
    /\ UNCHANGED <<timeVars, saveVars, sceneVars, impVars, expVars, cleanVars>>

\* The same frame range reaches the check of Cache.save.
CallSaveTimeCheck ==
    /\ itemRet.saveError = None
    /\ itemArgs.frameRange # None
    /\ itemRet' = [itemRet EXCEPT !.saveError = Some(saveTimeError(itemArgs.frameRange))]
    /\ UNCHANGED itemArgs
    /\ UNCHANGED <<timeVars, saveVars, sceneVars, impVars, expVars, cleanVars>>

ItemNext == CallSaveValidator \/ CallSaveTimeCheck

\* -------------------------------------------------------------- exportAbc

\* The files exportAbc handles besides the cache: whether the icon and the
\* sequence folder it is given exist, the bundles whose directory exists, and
\* the bundles that hold a thumbnail.jpg and a sequence folder.
NoFiles == [srcIcon |-> FALSE, srcSequence |-> FALSE, dirs |-> {},
            thumbnail |-> {}, sequence |-> {}]

\* exportAbc saving the cache before it copies the icon and the sequence.
exportOrderSaveFirst == <<"save", "icon", "sequence">>

\* exportAbc: the icon, then the sequence, then the cache.
exportOrder == <<"icon", "sequence", "save">>

\* The step of exportAbc after step s ("done": return cache).
ExportAfter(s) ==
    LET i == CHOOSE k \in 1..Len(exportOrder) : exportOrder[k] = s
    IN  IF i = Len(exportOrder) THEN "done" ELSE exportOrder[i + 1]

\* shutil.copyfile(iconPath, path + "/thumbnail.jpg")
copyfile(f, path) == [f EXCEPT !.thumbnail = @ \cup {path}]

\* os.path.isdir(path)
isdir(f, path) == path \in f.dirs

\* shutil.move(sequencePath, path + "/sequence"): without the directory the
\* rename fails and the folder is copied, which creates the directory.
move(f, path) ==
    [f EXCEPT !.srcSequence = FALSE, !.sequence = @ \cup {path},
              !.dirs = @ \cup {path}]

NoExportArgs == [path |-> None, time |-> None, exportUSD |-> FALSE,
                 iconPath |-> FALSE, sequencePath |-> FALSE,
                 before |-> None]

ExportIdle ==
    /\ expPc = "idle"
    /\ expArgs = NoExportArgs
    /\ expLog = <<>>
    /\ files = NoFiles

\* Any bundles may be on disk, and the icon, the sequence folder and the
\* directory of a bundle without files may or may not exist, when exportAbc
\* is called.
ExportInit ==
    /\ expPc = "idle"
    /\ expArgs = NoExportArgs
    /\ expLog = <<>>
    /\ disk \in [BundlePaths -> SavedBundles]
    /\ files \in [srcIcon : BOOLEAN, srcSequence : BOOLEAN,
                  dirs : SUBSET BundlePaths,
                  thumbnail : {{}}, sequence : {{}}]
    /\ \A p \in BundlePaths : disk[p] # NoBundle => isdir(files, p)
    /\ cache = NewCache
    /\ savePc = "idle"
    /\ saveArgs = NoArgs
    /\ saveLocals = NoLocals
    /\ saveLog = <<>>
    /\ raised = ""

\* exportAbc(objects, path, time, exportUSD=..., iconPath=..., sequencePath=...)
\* is entered; iconPath and sequencePath are given or empty.
ExportCall ==
    /\ expPc = "idle" /\ expArgs = NoExportArgs
    /\ \E p \in BundlePaths, t \in SaveTimes, u \in BOOLEAN,
          icon \in BOOLEAN, seq \in BOOLEAN :
         expArgs' = [path |-> Some(p), time |-> t, exportUSD |-> u,
                     iconPath |-> icon, sequencePath |-> seq,
                     before |-> Some(disk)]
    /\ expPc' = exportOrder[1]
    /\ UNCHANGED <<expLog, files>>
    /\ UNCHANGED <<timeVars, saveVars, sceneVars, impVars, itemVars, cleanVars>>

\* "if iconPath: shutil.copyfile(...)"; a missing icon and a missing bundle
\* directory raise.
ExportCopyIcon ==
    /\ expPc = "icon"
    /\ \/ /\ ~expArgs.iconPath
          /\ expPc' = ExportAfter("icon")
          /\ UNCHANGED <<files, expLog, raised>>
       \/ /\ expArgs.iconPath
          /\ files.srcIcon /\ isdir(files, expArgs.path[1])
          /\ files' = copyfile(files, expArgs.path[1])
          /\ expLog' = Append(expLog, "copyfile")
          /\ expPc' = ExportAfter("icon")
          /\ UNCHANGED raised
       \/ /\ expArgs.iconPath
          /\ ~(files.srcIcon /\ isdir(files, expArgs.path[1]))
          /\ raised' = "IOError"
          /\ expPc' = "raised"
          /\ UNCHANGED <<files, expLog>>
    /\ UNCHANGED <<expArgs, cache, disk, savePc, saveArgs, saveLocals, saveLog>>
    /\ UNCHANGED <<timeVars, sceneVars, impVars, itemVars, cleanVars>>

\* "if sequencePath: shutil.move(...)"; a missing folder raises.
ExportMoveSequence ==
    /\ expPc = "sequence"
    /\ \/ /\ ~expArgs.sequencePath
          /\ expPc' = ExportAfter("sequence")
          /\ UNCHANGED <<files, expLog, raised>>
       \/ /\ expArgs.sequencePath /\ files.srcSequence
          /\ files' = move(files, expArgs.path[1])
          /\ expLog' = Append(expLog, "move")
          /\ expPc' = ExportAfter("sequence")
          /\ UNCHANGED raised
       \/ /\ expArgs.sequencePath /\ ~files.srcSequence
          /\ raised' = "IOError"
          /\ expPc' = "raised"
          /\ UNCHANGED <<files, expLog>>
    /\ UNCHANGED <<expArgs, cache, disk, savePc, saveArgs, saveLocals, saveLog>>
    /\ UNCHANGED <<timeVars, sceneVars, impVars, itemVars, cleanVars>>

\* cache = Cache.fromObjects(objects); cache.updateMetadata(metadata);
\* cache.save(path, time=time, ...) is entered.
ExportSave ==
    /\ expPc = "save"
    /\ cache' = NewCache
    /\ saveArgs' = [path |-> expArgs.path, time |-> expArgs.time,
                    exportUSD |-> expArgs.exportUSD]
    /\ savePc' = "check"
    /\ saveLog' = <<>>
    /\ expLog' = Append(expLog, "save")
    /\ expPc' = "saving"
    /\ UNCHANGED <<expArgs, files, disk, saveLocals, raised>>
    /\ UNCHANGED <<timeVars, sceneVars, impVars, itemVars, cleanVars>>

\* cache.save has returned, or its exception leaves exportAbc.
ExportSaveReturn ==
    /\ expPc = "saving" /\ savePc \in {"done", "raised"}
    /\ expPc' = IF savePc = "raised" THEN "raised" ELSE ExportAfter("save")
    /\ UNCHANGED <<expArgs, expLog, files>>
    /\ UNCHANGED <<timeVars, saveVars, sceneVars, impVars, itemVars, cleanVars>>

ExportNext ==
    \/ ExportCall \/ ExportCopyIcon \/ ExportMoveSequence \/ ExportSave
    \/ SaveCheck \/ SaveSetMetadata \/ SavePose \/ SaveExport \/ SaveUSD
    \/ SaveSetPath \/ ExportSaveReturn

\* ------------------------------------------------- Cache.cleanMayaFile

\* A Maya file of the model has at most MaxLines lines.
MaxLines == 3

\* cleanMayaFile is followed at most MaxCleans times on a file.
MaxCleans == 2

\* "\n"
Newline == <<10>>

\* "\r"
Return13 == <<13>>

\* "select -ne"
SelectNe == <<115, 101, 108, 101, 99, 116, 32, 45, 110, 101>>

\* "// End"
EndMark == <<47, 47, 32, 69, 110, 100>>

\* os.linesep: "\n" (POSIX) or "\r\n" (Windows).
LineSeps == {Newline, Return13 \o Newline}

\* Line bodies: "a", "", "select -ne", " select -ne", "select -n".
LineBodies == {<<97>>, <<>>, SelectNe, <<32>> \o SelectNe,
               SubSeq(SelectNe, 1, 9)}

\* The line ends a file may hold: "\n", "\r\n", "\r".
LineEnds == {Newline, Return13 \o Newline, Return13}

\* A line with its end, and a last line, which need not have one.
FullLines == {b \o e : b \in LineBodies, e \in LineEnds}

LastLines == FullLines \cup (LineBodies \ {<<>>})

RECURSIVE FileContents(_)
FileContents(n) ==
    IF n = 0 THEN {<<>>}
    ELSE {<<>>} \cup {l \o rest : l \in FullLines, rest \in FileContents(n - 1)}
                \cup LastLines

\* Reading in text mode (open(path, "r"), newline=None): "\r\n" and "\r"
\* come out as "\n".
RECURSIVE readText(_)
readText(content) ==
    IF content = <<>> THEN <<>>
    ELSE IF Head(content) # 13 THEN <<Head(content)>> \o readText(Tail(content))
    ELSE IF Len(content) >= 2 /\ content[2] = 10
    THEN Newline \o readText(SubSeq(content, 3, Len(content)))
    ELSE Newline \o readText(Tail(content))

\* Writing in text mode (open(path, "w"), newline=None): each "\n" goes out
\* as os.linesep.
RECURSIVE writeText(_, _)
writeText(text, sep) ==
    IF text = <<>> THEN <<>>
    ELSE (IF Head(text) = 10 THEN sep ELSE <<Head(text)>>)
            \o writeText(Tail(text), sep)

\* The lines of a text, each with its "\n".
RECURSIVE splitLines(_)
splitLines(text) ==
    IF text = <<>> THEN <<>>
    ELSE LET ends == {i \in 1..Len(text) : text[i] = 10}
         IN  IF ends = {} THEN <<text>>
             ELSE LET k == CHOOSE i \in ends : \A j \in ends : i <= j
                  IN  <<SubSeq(text, 1, k)>>
                         \o splitLines(SubSeq(text, k + 1, Len(text)))

\* open(path, "r"), f.readlines(): the lines of the file as text.
readlines(content) == splitLines(readText(content))

\* The strings of a list, one after the other.
RECURSIVE joinLines(_)
joinLines(lines) ==
    IF lines = <<>> THEN <<>> ELSE Head(lines) \o joinLines(Tail(lines))

\* open(path, "w"), f.writelines(results): the content of the file written.
writelines(lines, sep) == writeText(joinLines(lines), sep)

\* line.startswith(prefix)
startswith(line, prefix) ==
    /\ Len(line) >= Len(prefix)
    /\ SubSeq(line, 1, Len(prefix)) = prefix

\* The loop of cleanMayaFile without its break.
RECURSIVE cleanLinesNoBreak(_)
cleanLinesNoBreak(lines) ==
    IF lines = <<>> THEN <<>>
    ELSE IF ~startswith(Head(lines), SelectNe)
    THEN <<Head(lines)>> \o cleanLinesNoBreak(Tail(lines))
    ELSE <<EndMark>> \o cleanLinesNoBreak(Tail(lines))

\* The loop of cleanMayaFile: keep the lines up to the first that starts
\* with "select -ne", put "// End" for that one and stop.
RECURSIVE cleanLines(_)
cleanLines(lines) ==
    IF lines = <<>> THEN <<>>
    ELSE IF ~startswith(Head(lines), SelectNe)
    THEN <<Head(lines)>> \o cleanLines(Tail(lines))
    ELSE <<EndMark>>

\* Cache.cleanMayaFile(path), on the content of the file at path, where
\* os.linesep is sep.
cleanMayaFile(content, sep) ==
    writelines(cleanLines(readlines(content)), sep)

CleanIdle ==
    /\ mayaFile = <<>>
    /\ cleanLog = <<>>
    /\ linesep = Newline

CleanInit ==
    /\ mayaFile \in FileContents(MaxLines)
    /\ cleanLog = <<>>
    /\ linesep \in LineSeps

CallCleanMayaFile ==
    /\ Len(cleanLog) < MaxCleans
    /\ mayaFile' = cleanMayaFile(mayaFile, linesep)
    /\ cleanLog' = Append(cleanLog, mayaFile)
    /\ UNCHANGED linesep
    /\ UNCHANGED <<timeVars, saveVars, sceneVars, impVars, itemVars, expVars>>

CleanNext == CallCleanMayaFile

\* ------------------------------------------------------- specifications

TimeSpecInit == TimeInit /\ SaveIdle /\ SceneIdle /\ ImportIdle /\ ItemIdle /\ ExportIdle /\ CleanIdle

SpecTime == TimeSpecInit /\ [][TimeNext]_vars

SaveSpecInit == SaveInit /\ TimeIdle /\ SceneIdle /\ ImportIdle /\ ItemIdle /\ ExportIdle /\ CleanIdle

SpecSave == SaveSpecInit /\ [][SaveNext]_vars

SceneSpecInit == SceneInit /\ TimeIdle /\ SaveIdle /\ ImportIdle /\ ItemIdle /\ ExportIdle /\ CleanIdle

SpecScene == SceneSpecInit /\ [][SceneNext]_vars

ImportSpecInit == ImportInit /\ TimeIdle /\ SceneIdle /\ ItemIdle /\ ExportIdle /\ CleanIdle

SpecImport == ImportSpecInit /\ [][ImportNext]_vars

ItemSpecInit == ItemInit /\ TimeIdle /\ SaveIdle /\ SceneIdle /\ ImportIdle /\ ExportIdle /\ CleanIdle

SpecItem == ItemSpecInit /\ [][ItemNext]_vars

ExportSpecInit == ExportInit /\ TimeIdle /\ SceneIdle /\ ImportIdle /\ ItemIdle /\ CleanIdle

SpecExport == ExportSpecInit /\ [][ExportNext]_vars

CleanSpecInit ==
    CleanInit /\ TimeIdle /\ SaveIdle /\ SceneIdle /\ ImportIdle /\ ItemIdle /\ ExportIdle

SpecClean == CleanSpecInit /\ [][CleanNext]_vars

\* ------------------------------------------------ claims on the helpers

Max2(a, b) == IF a >= b THEN a ELSE b

Min2(a, b) == IF a <= b THEN a ELSE b

Ordered(r) == r[1] <= r[2]

Overlap(src, dst) == src[1] <= dst[2] /\ src[2] >= dst[1]

FramesOf(r) == {f \in Int : r[1] <= f /\ f <= r[2]}

ClampDone == fn = "clampRange" /\ ~Pending

MoveDone == fn = "moveTime" /\ ~Pending

FindDone == fn = "findFirstLastKeyframes" /\ ~Pending

\* C1: for ordered ranges src and dst that overlap, clampRange(src, dst)
\* returns exactly their intersection (max of the starts, min of the ends);
\* clampRange((15,35),(20,30)) = (20,30), clampRange((25,45),(20,30)) = (25,30).
C1_ClampIsIntersection ==
    /\ clampRange(<<15, 35>>, <<20, 30>>) = Return(<<20, 30>>)
    /\ clampRange(<<25, 45>>, <<20, 30>>) = Return(<<25, 30>>)
    /\ (ClampDone /\ Ordered(args.srcTime) /\ Ordered(args.dstTime)
          /\ Overlap(args.srcTime, args.dstTime))
       => /\ ret = Return(<<Max2(args.srcTime[1], args.dstTime[1]),
                            Min2(args.srcTime[2], args.dstTime[2])>>)
          /\ Ordered(ret.value)

\* C1 witness: a source range that sticks out of the destination at both ends
\* has been clamped.
C1_Witness ==
    /\ ClampDone /\ Ordered(args.srcTime) /\ Ordered(args.dstTime)
    /\ args.srcTime[1] < args.dstTime[1] /\ args.srcTime[2] > args.dstTime[2]
    /\ ret.value = args.dstTime

\* C2: clampRange raises OutOfBoundsError if and only if the source lies
\* entirely after or entirely before the destination; for ordered ranges that
\* is exactly when they share no frame, and ranges that touch at one endpoint
\* frame return that single frame.
C2_RaisesIffDisjoint ==
    ClampDone =>
      LET src == args.srcTime
          dst == args.dstTime
      IN  /\ (ret.error = "OutOfBoundsError")
                <=> (src[1] > dst[2] \/ src[2] < dst[1])
          /\ ret.error \in {"", "OutOfBoundsError"}
          /\ (Ordered(src) /\ Ordered(dst)) =>
                /\ (ret.error = "OutOfBoundsError")
                      <=> (\A f \in Frames : ~(f \in FramesOf(src) /\ f \in FramesOf(dst)))
                /\ src[2] = dst[1] => ret = Return(<<dst[1], dst[1]>>)
                /\ src[1] = dst[2] => ret = Return(<<dst[2], dst[2]>>)

\* C2 witness: two proper ranges that touch at one frame gave that frame.
C2_Witness ==
    /\ ClampDone
    /\ args.srcTime[1] < args.srcTime[2] /\ args.dstTime[1] < args.dstTime[2]
    /\ args.srcTime[2] = args.dstTime[1]
    /\ ret = Return(<<args.dstTime[1], args.dstTime[1]>>)

\* C3: for a range (s, e) with s # e, moveTime((s, e), start) is
\* (start, start + (e - s)) for an integer start and (s, e) for start None;
\* moveTime((15,35), 5) = (5,25).
C3_MoveKeepsDuration ==
    /\ moveTime(<<15, 35>>, Some(5)) = <<5, 25>>
    /\ (MoveDone /\ args.time[1] # args.time[2]) =>
          LET s == args.time[1]
              e == args.time[2]
          IN  /\ args.start # None =>
                    ret.value = <<args.start[1], args.start[1] + (e - s)>>
              /\ args.start = None => ret.value = <<s, e>>

\* C3 witness: a range of nonzero duration was moved to another start.
C3_Witness ==
    /\ MoveDone /\ args.time[1] < args.time[2]
    /\ args.start # None /\ args.start # Some(args.time[1])
    /\ ret.value[1] = args.start[1]

\* C4: for a range (s, e) with s <= e and any start, moveTime returns
\* (start', end') with end' > start'; for s = e, end' = start' + 1.
C4_MoveEndAfterStart ==
    (MoveDone /\ Ordered(args.time)) =>
        /\ ret.error = ""
        /\ ret.value[2] > ret.value[1]
        /\ args.time[1] = args.time[2] => ret.value[2] = ret.value[1] + 1

\* C4 witness: a zero-duration range was moved to a given start.
C4_Witness ==
    /\ MoveDone /\ args.time[1] = args.time[2] /\ args.start # None
    /\ ret.value = <<args.start[1], args.start[1] + 1>>

\* C8: findFirstLastKeyframes never fails on a time that does not overlap the
\* curves' (first, last): an overlapping time comes back clamped to
\* (first, last), a non-overlapping time or no time gives (first, last).
C8_FindNeverFails ==
    FindDone =>
      LET first == SetMin(args.curves)
          last == SetMax(args.curves)
          time == args.time
      IN  /\ ret.error = ""
          /\ time = None => ret.value = <<first, last>>
          /\ (time # None /\ Overlap(time, <<first, last>>)) =>
                ret.value = <<Max2(time[1], first), Min2(time[2], last)>>
          /\ (time # None /\ ~Overlap(time, <<first, last>>)) =>
                ret.value = <<first, last>>

\* C8 witness: a time entirely after the last key gave the unclamped range.
C8_Witness ==
    /\ FindDone /\ args.time # None
    /\ args.time[1] > SetMax(args.curves)
    /\ ret = Return(<<SetMin(args.curves), SetMax(args.curves)>>)

\* ------------------------------------------------- claims on Cache.save

InSave == saveArgs.path # None

\* The frame-range check of the running save has just been decided: it let
\* the call through to the metadata step, or raised before any other step.
CheckDecided ==
    /\ InSave
    /\ savePc = "setMetadata" \/ (savePc = "raised" /\ saveLog = <<>>)

\* The places in the log of the running call where op was recorded.
LogAt(op) == {i \in 1..Len(saveLog) : saveLog[i].op = op}

\* C5 as stated: save raises AnimationTransferError exactly when start or end
\* is missing or start > end, and accepts every range with start <= end,
\* a single-frame range (start = end) included.
C5_Original ==
    CheckDecided =>
        ((raised = "AnimationTransferError")
            <=> \/ saveLocals.start = None \/ saveLocals.end = None
                \/ saveLocals.start[1] > saveLocals.end[1])

\* C5 amended: save raises AnimationTransferError exactly when start or end
\* is missing or start >= end; a single-frame range (start = end) is
\* rejected, and exactly the ranges with start < end pass the check.
C5_RejectsUnlessStartBeforeEnd ==
    CheckDecided =>
        LET missing == saveLocals.start = None \/ saveLocals.end = None
        IN  /\ raised \in {"", "AnimationTransferError"}
            /\ (raised = "AnimationTransferError")
                  <=> (missing \/ saveLocals.start[1] >= saveLocals.end[1])
            /\ (savePc = "setMetadata")
                  <=> (~missing /\ saveLocals.start[1] < saveLocals.end[1])
            /\ (~missing /\ saveLocals.start = saveLocals.end)
                  => raised = "AnimationTransferError"

\* C5 witness: save was given a single-frame range and raised on it.
C5_Witness ==
    /\ CheckDecided
    /\ saveArgs.time # None
    /\ saveLocals.start # None /\ saveLocals.start = saveLocals.end
    /\ savePc = "raised" /\ raised = "AnimationTransferError"

\* C10: after a successful save(path, time=(start, end)) the metadata holds
\* startFrame = start and endFrame = end (not the end + 1 of the export
\* command), startFrame() < endFrame(), the cache's path is the saved path and
\* fromPath(path) reads the same frames back; in every call the metadata is
\* set before pose.json is written and the path only after the export.
C10_SaveRoundTrip ==
    /\ InSave =>
          /\ \A i \in LogAt("pose.json") : \E j \in LogAt("setMetadata") : j < i
          /\ \A i \in LogAt("setPath") : \E j \in LogAt("AbcExport") : j < i
          /\ \A i \in LogAt("AbcExport") : \E j \in LogAt("pose.json") : j < i
          /\ LogAt("setPath") = {} => savePc # "done"
    /\ (InSave /\ savePc = "done" /\ saveArgs.time # None) =>
          LET path == saveArgs.path[1]
              start == saveArgs.time[1]
              end == saveArgs.time[2]
              back == fromPath(disk, path)
          IN  /\ start # None /\ end # None
              /\ startFrame(cache) = start
              /\ endFrame(cache) = end
              /\ startFrame(cache)[1] < endFrame(cache)[1]
              /\ cache.path = Some(path)
              /\ back.error = ""
              /\ startFrame(back.value) = start
              /\ endFrame(back.value) = end
              /\ back.value.path = Some(path)
              /\ \A i \in LogAt("AbcExport") :
                    saveLog[i].frameRange = <<start[1], end[1] + 1>>

\* C10 witness: save(path, time=(0, 2)) succeeded on a cache that had another
\* path, and the bundle reads back with end frame 2 while the export ran to 3.
C10_Witness ==
    /\ InSave /\ savePc = "done"
    /\ saveArgs.time = <<Some(0), Some(2)>>
    /\ endFrame(fromPath(disk, saveArgs.path[1]).value) = Some(2)
    /\ \E i \in LogAt("AbcExport") : saveLog[i].frameRange = <<0, 3>>
    /\ \E q \in BundlePaths : q # saveArgs.path[1] /\ disk[q].pose # None
                              /\ disk[q].pose # disk[saveArgs.path[1]].pose

\* The frame range (start, end) is one Cache.save must refuse.
InvalidRange(start, end) ==
    start = None \/ end = None \/ start[1] >= end[1]

\* C11: a save called with an invalid frame range (start or end missing, or
\* start >= end) raises AnimationTransferError before changing anything:
\* from the entry of the call to the propagated error the metadata, the
\* cache's path and the bundles on disk keep their values, and nothing
\* (no setMetadata, no pose.json, no export command) is logged.
C11_InvalidRangeChangesNothing ==
    [][/\ (savePc = "idle" /\ savePc' = "check") =>
             /\ cache' = cache /\ disk' = disk /\ saveLog' = <<>>
       /\ (savePc = "check" /\ savePc' # "check"
             /\ InvalidRange(saveLocals'.start, saveLocals'.end)) =>
             /\ savePc' = "raised" /\ raised' = "AnimationTransferError"
             /\ cache' = cache /\ disk' = disk /\ saveLog' = <<>>
       /\ (InSave /\ savePc = "raised" /\ raised = "AnimationTransferError") =>
             /\ cache' = cache /\ disk' = disk
             /\ saveLog = <<>>
             /\ InvalidRange(saveLocals.start, saveLocals.end)
      ]_vars

\* C11 witness: a cache that already holds a frame range and a path was saved
\* again, to a written bundle, with start = end, and the call has raised.
C11_Witness ==
    /\ InSave /\ savePc = "raised" /\ raised = "AnimationTransferError"
    /\ saveArgs.time # None
    /\ saveLocals.start # None /\ saveLocals.start = saveLocals.end
    /\ startFrame(cache) # None /\ cache.path # None
    /\ disk[saveArgs.path[1]].pose # None /\ disk[saveArgs.path[1]].abc
    /\ saveLog = <<>>


\* ------------------------------------------ claims on Cache.open / close

HasNonAscii(s) == \E i \in 1..Len(s) : s[i] >= 128

\* C6: a completed close() leaves no node in REMOVE_IMPORT and no REMOVE_IMPORT
\* namespace; open() cleans up before it imports, so after a successful
\* open() the namespace holds exactly the nodes of that import and none of
\* an earlier one.
C6_CloseCleansOpenReplaces ==
    /\ sceneCall.op = "close" =>
          /\ scene.nodes = {}
          /\ IMPORT_NAMESPACE \notin scene.namespaces
    /\ (sceneCall.op = "open" /\ sceneCall.ret.error = "") =>
          /\ scene.nodes = sceneCall.ret.value
          /\ \A nd \in scene.nodes : nd[1] = imports
          /\ scene.nodes \cap sceneCall.found = {}
          /\ scene.renamed = {}
          /\ scene.namespaces = {IMPORT_NAMESPACE}

\* C6 witness: an open() found the nodes of an earlier open() in the
\* namespace and left only its own there.
C6_Witness ==
    /\ sceneCall.op = "open" /\ sceneCall.ret.error = ""
    /\ sceneCall.found # {}
    /\ scene.nodes # {}
    /\ scene.nodes \cap sceneCall.found = {}

\* C7: open() on a bundle whose scene-file path holds a code point >= 128
\* raises IOError and imports no node; with an all-ASCII path it imports and
\* returns the new nodes.
C7_NonAsciiPathRaises ==
    sceneCall.op = "open" =>
        /\ HasNonAscii(sceneCall.mayaPath) =>
              /\ sceneCall.ret = Raise("IOError")
              /\ imports = sceneCall.importsBefore
              /\ scene.nodes = {} /\ scene.renamed = {}
        /\ ~HasNonAscii(sceneCall.mayaPath) =>
              /\ sceneCall.ret.error = ""
              /\ imports = sceneCall.importsBefore + 1
              /\ sceneCall.ret.value = scene.nodes
              /\ \A nd \in scene.nodes : nd[1] = imports
        /\ HasNonAscii(sceneCall.mayaPath) <=> HasNonAscii(sceneCall.path)

\* C7 witness: open() raised on a path whose only non-ASCII character is the
\* code point 128, at its end.
C7_Witness ==
    /\ sceneCall.op = "open"
    /\ sceneCall.path = <<97, 128>>
    /\ sceneCall.ret = Raise("IOError")
    /\ sceneCall.found # {}

\* --------------------------------------------------- claims on importAbc

ImportDone == impRet.error \notin {"pending", "dialog"}

\* The start frames the claim expects for paths: the first cache at its own
\* start frame, each next one at the previous start + the previous duration
\* + the spacing.
RECURSIVE Schedule(_, _, _, _)
Schedule(d, paths, at, spacing) ==
    IF paths = <<>> THEN <<>>
    ELSE LET m == d[Head(paths)].pose[1]
             sf == IF at = None THEN m.startFrame ELSE at
             next == Some(sf[1] + (m.endFrame[1] - m.startFrame[1]) + spacing)
         IN  <<[path |-> Head(paths), startFrame |-> sf]>>
                \o Schedule(d, Tail(paths), next, spacing)

\* C9: for a non-empty list of saved bundles importAbc completes without
\* error and loads each path once, in list order, the first at its stored
\* start frame and each next one at the previous start + the previous
\* duration + the spacing, a spacing below 1 counting as 1.
C9_LoadsInOrder ==
    (/\ ImportDone
     /\ impArgs.paths # <<>>
     /\ ~impArgs.showDialog
     /\ \A i \in 1..Len(impArgs.paths) : disk[impArgs.paths[i]].pose # None)
    => /\ impRet.error = ""
       /\ impRet.loads = Schedule(disk, impArgs.paths, None,
                                  IF impArgs.spacing < 1 THEN 1 ELSE impArgs.spacing)

\* ------------------------------------- claims on CacheItem.saveValidator

\* The names of the fields the validator has flagged.
Flagged == {itemRet.fields[1][i].name : i \in 1..Len(itemRet.fields[1])}

\* C12: saveValidator reports a frameRange error exactly when start >= end
\* and a byFrame error exactly when byFrame is '' or less than 1; on every
\* integer frame range it agrees with Cache.save: a range it does not flag
\* passes the frame-range check of save, a range it flags is refused there.
C12_ValidatorAgreesWithSave ==
    /\ itemRet.fields # None =>
          LET range == IF itemArgs.frameRange = None THEN <<0, 1>>
                       ELSE itemArgs.frameRange
          IN  /\ ("frameRange" \in Flagged) <=> (range[1] >= range[2])
              /\ ("byFrame" \in Flagged)
                    <=> \/ itemArgs.byFrame.kind = "empty"
                        \/ (itemArgs.byFrame.kind = "int" /\ itemArgs.byFrame.v < 1)
              /\ \A i \in 1..Len(itemArgs.fields) :
                    itemRet.fields[1][i] = itemArgs.fields[i]
    /\ (itemRet.fields # None /\ itemRet.saveError # None) =>
          ("frameRange" \in Flagged)
             <=> (itemRet.saveError[1] = "AnimationTransferError")

\* C12 witness: a single-frame range was flagged by the validator and refused
\* by save.
C12_Witness ==
    /\ itemRet.fields # None /\ itemRet.saveError # None
    /\ itemArgs.frameRange # None
    /\ itemArgs.frameRange[1] = itemArgs.frameRange[2]
    /\ "frameRange" \in Flagged
    /\ itemRet.saveError = Some("AnimationTransferError")

\* ---------------------------------------------------- claims on exportAbc

ExportPath == expArgs.path[1]

ExportLogAt(step) == {i \in 1..Len(expLog) : expLog[i] = step}

\* exportAbc has failed in its save step.
ExportSaveFailed == expPc = "raised" /\ ExportLogAt("save") # {}

\* The bundle exportAbc writes to held neither pose.json nor cache.abc.
ExportFresh == expArgs.before[1][ExportPath] = NoBundle

\* The icon is in the bundle and the sequence folder has left its place, as
\* far as exportAbc was given them.
IconAndSequenceHandled ==
    /\ expArgs.iconPath => ExportPath \in files.thumbnail
    /\ expArgs.sequencePath =>
          (ExportPath \in files.sequence /\ ~files.srcSequence)

\* C13 as stated: whenever the save step of exportAbc fails, the thumbnail is
\* in the bundle, the sequence folder has been moved, and pose.json and the
\* cache file do not exist.
C13_Original ==
    (ExportSaveFailed /\ ExportFresh) =>
        /\ IconAndSequenceHandled
        /\ disk[ExportPath].pose = None
        /\ ~disk[ExportPath].abc

\* C13 amended: exportAbc copies the icon, then moves the sequence folder,
\* then builds and saves the cache, with no rollback: when the save step
\* fails the thumbnail is in the bundle and the sequence folder has been
\* moved.  When it fails on an invalid frame range nothing of the bundle has
\* been written (pose.json and the cache file do not exist in a new bundle);
\* a later failure in save leaves behind what save wrote before it.
C13_ExportNoRollback ==
    /\ \A i \in ExportLogAt("copyfile") : \A j \in ExportLogAt("move") : i < j
    /\ \A i \in ExportLogAt("copyfile") \cup ExportLogAt("move") :
          \A j \in ExportLogAt("save") : i < j
    /\ ExportLogAt("save") # {} => IconAndSequenceHandled
    /\ (ExportSaveFailed /\ raised = "AnimationTransferError") =>
          /\ disk = expArgs.before[1]
          /\ saveLog = <<>>
          /\ ExportFresh => (disk[ExportPath].pose = None /\ ~disk[ExportPath].abc)
    /\ (ExportSaveFailed /\ ExportFresh) =>
          /\ (disk[ExportPath].pose # None) <=> (LogAt("pose.json") # {})
          /\ disk[ExportPath].abc <=> (LogAt("AbcExport") # {})
    /\ ExportSaveFailed => cache.path = None

\* C13 witness: exportAbc was given an icon, a sequence folder and a
\* single-frame range for a new bundle; save raised, the thumbnail and the
\* sequence are in the bundle, pose.json and the cache file are not.
C13_Witness ==
    /\ ExportSaveFailed /\ raised = "AnimationTransferError"
    /\ expArgs.iconPath /\ expArgs.sequencePath /\ ExportFresh
    /\ expArgs.time = <<Some(1), Some(1)>>
    /\ ExportPath \in files.thumbnail /\ ExportPath \in files.sequence
    /\ ~files.srcSequence
    /\ disk[ExportPath].pose = None /\ ~disk[ExportPath].abc

\* ------------------------------------------------ claims on cleanMayaFile

\* The content after the k-th clean of the file.
AfterClean(k) == IF k < Len(cleanLog) THEN cleanLog[k + 1] ELSE mayaFile

\* The lines among lines that start with "select -ne".
SelectLines(lines) ==
    {i \in 1..Len(lines) : startswith(lines[i], SelectNe)}

\* The lines up to the first that starts with "select -ne", with "// End"
\* in its place; all the lines if there is none.
UpToSelect(lines) ==
    IF SelectLines(lines) = {} THEN lines
    ELSE LET first == CHOOSE i \in SelectLines(lines) :
                          \A j \in SelectLines(lines) : i <= j
         IN  SubSeq(lines, 1, first - 1) \o <<EndMark>>

\* The content has the line ends text mode writes: os.linesep and no other.
PlatformLineEnds(content) == content = writeText(readText(content), linesep)

\* C14 as stated: after cleanMayaFile the file holds, as it stood, every line
\* before the first line that starts with "select -ne", followed by
\* "// End"; a file without such a line has identical content; cleaning a
\* cleaned file changes nothing.
C14_Original ==
    \A k \in 1..Len(cleanLog) :
        /\ AfterClean(k) = joinLines(UpToSelect(splitLines(cleanLog[k])))
        /\ k > 1 => AfterClean(k) = cleanLog[k]

\* C14 amended: after cleanMayaFile the lines of the file, read as text, are
\* the lines before the first line that starts with "select -ne" followed by
\* the single line "// End", that line and all after it dropped; a file
\* without such a line keeps its lines, and its content if its line ends are
\* those of the platform; every line end written is os.linesep; cleaning a
\* cleaned file changes nothing.
C14_CleanTruncatesAtSelect ==
    \A k \in 1..Len(cleanLog) :
        LET before == cleanLog[k]
            after == AfterClean(k)
            lines == readlines(before)
        IN  /\ readlines(after) = UpToSelect(lines)
            /\ PlatformLineEnds(after)
            /\ SelectLines(lines) = {} =>
                  /\ readlines(after) = lines
                  /\ PlatformLineEnds(before) => after = before
            /\ SelectLines(readlines(after)) = {}
            /\ k > 1 => after = before

\* C14 witness: a file with a line before and a line after its "select -ne"
\* line was cleaned twice; the first clean cut it, the second kept it.
C14_Witness ==
    /\ Len(cleanLog) = 2
    /\ linesep = Newline
    /\ cleanLog[1] = <<97, 13, 10>> \o SelectNe \o Newline \o <<97, 10>>
    /\ cleanLog[2] = <<97, 10>> \o EndMark
    /\ mayaFile = cleanLog[2]

====
